---- MODULE Spec2Model ----
(***************************************************************************)
(* Model of the openDartReaderServer Gateway (src/main.py, src/models.py). *)
(*                                                                         *)
(* The process loads the module (reads DART_API_KEY, builds the provider   *)
(* client `dart`), then serves requests.  A request is routed to its       *)
(* handler, the handler makes its provider call, and the handler turns the *)
(* provider's outcome into the response.  The provider (OpenDartReader)    *)
(* is the environment: its outcome is chosen nondeterministically among a  *)
(* returned value, None, a ValueError and any other exception.             *)
(*                                                                         *)
(* Representation of Python values:                                        *)
(*   str that is inspected char by char : sequence of one-char strings     *)
(*   str that is only passed along      : a TLA+ string                    *)
(*   None of an Optional[str]           : the string None                  *)
(*   Optional[date]                     : <<>> (None) or <<y, m, d>>       *)
(*   DataFrame                          : record of equally long columns   *)
(*   DataFrame cell                     : a string; Inf, NegInf, NaN and   *)
(*                                        None are the special cells       *)
(***************************************************************************)
EXTENDS Integers, Sequences, FiniteSets, TLC

VARIABLES API_KEY, dart, phase, pc, op, req, args, calls, out, xml_text, resp

vars == <<API_KEY, dart, phase, pc, op, req, args, calls, out, xml_text, resp>>

\* ------------------------------------------------------------------ bounds

\* Most rows a provider table (or profile list) has.
MaxRows == 2
\* Most pieces a provider document body or a requested name is built from.
MaxPieces == 2

\* ------------------------------------------------------------ Python values

None == "None"
NoDate == <<>>

Inf == "inf"
NegInf == "-inf"
NaN == "nan"

\* All concatenations of at most n pieces.
RECURSIVE Built(_, _)
Built(pieces, n) ==
    IF n = 0 THEN {<<>>}
    ELSE LET shorter == Built(pieces, n - 1)
         IN  shorter \cup {s \o p : s \in shorter, p \in pieces}

\* ------------------------------------------------- urllib.parse.unquote

\* The hex digits the requested names are written with.
HexDigits == {"0", "2", "5"}

\* The character a %XX escape stands for.
ByteChar(h1, h2) ==
    CASE h1 = "0" /\ h2 = "0" -> "\\x00"
      [] h1 = "0" /\ h2 = "2" -> "\\x02"
      [] h1 = "0" /\ h2 = "5" -> "\\x05"
      [] h1 = "2" /\ h2 = "0" -> " "
      [] h1 = "2" /\ h2 = "2" -> "\""
      [] h1 = "2" /\ h2 = "5" -> "%"
      [] h1 = "5" /\ h2 = "0" -> "P"
      [] h1 = "5" /\ h2 = "2" -> "R"
      [] h1 = "5" /\ h2 = "5" -> "U"

\* One left-to-right pass: %XX becomes its character, anything else stays.
RECURSIVE unquote_from(_, _)
unquote_from(s, i) ==
    IF i > Len(s) THEN <<>>
    ELSE IF /\ s[i] = "%"
            /\ i + 2 <= Len(s)
            /\ s[i + 1] \in HexDigits
            /\ s[i + 2] \in HexDigits
         THEN <<ByteChar(s[i + 1], s[i + 2])>> \o unquote_from(s, i + 3)
         ELSE <<s[i]>> \o unquote_from(s, i + 1)

unquote(s) == unquote_from(s, 1)

\* ------------------------------------------------- str.replace('&', '&amp;')

AmpEntity == <<"&", "a", "m", "p", ";">>

RECURSIVE replace_amp(_)
replace_amp(s) ==
    IF s = <<>> THEN <<>>
    ELSE (IF Head(s) = "&" THEN AmpEntity ELSE <<Head(s)>>) \o replace_amp(Tail(s))

\* ------------------------------------------------- ET.fromstring

\* Element names of the modelled documents are one letter long.
NameChars == {"a", "b"}

\* The entities XML predefines; any other reference is a parse error.
Entities ==
    { <<"a", "m", "p">>, <<"l", "t">>, <<"g", "t">>,
      <<"q", "u", "o", "t">>, <<"a", "p", "o", "s">> }

At(s, i) == IF i >= 1 /\ i <= Len(s) THEN s[i] ELSE ""

\* The text from position i on starts with pat.
StartsWith(s, i, pat) == \A k \in 1..Len(pat) : At(s, i + k - 1) = pat[k]

\* The length of the entity reference &name; that starts at position i, or 0.
RefLen(s, i) ==
    LET hits == {e \in Entities : StartsWith(s, i + 1, e \o <<";">>)}
    IN  IF At(s, i) = "&" /\ hits # {}
        THEN Len(CHOOSE e \in hits : TRUE) + 2
        ELSE 0

\* Whether the text from position i on completes a well-formed document,
\* given the stack of open elements and whether the root has been seen.
RECURSIVE parse_from(_, _, _, _)
parse_from(s, i, open, rooted) ==
    IF i > Len(s) THEN open = <<>> /\ rooted
    ELSE IF s[i] = "<" THEN
        IF At(s, i + 1) = "/" THEN
            /\ open # <<>>
            /\ At(s, i + 2) = open[Len(open)]
            /\ At(s, i + 3) = ">"
            /\ parse_from(s, i + 4, SubSeq(open, 1, Len(open) - 1), rooted)
        ELSE
            /\ At(s, i + 1) \in NameChars
            /\ (open # <<>> \/ ~rooted)
            /\ IF At(s, i + 2) = ">"
               THEN parse_from(s, i + 3, Append(open, s[i + 1]), TRUE)
               ELSE /\ At(s, i + 2) = "/"
                    /\ At(s, i + 3) = ">"
                    /\ parse_from(s, i + 4, open, TRUE)
    ELSE IF s[i] = "&" THEN
        /\ open # <<>>
        /\ RefLen(s, i) > 0
        /\ parse_from(s, i + RefLen(s, i), open, rooted)
    ELSE
        /\ open # <<>>
        /\ parse_from(s, i + 1, open, rooted)

\* TRUE when ET.fromstring returns, FALSE when it raises ET.ParseError.
fromstring_ok(s) == parse_from(s, 1, <<>>, FALSE)

\* ------------------------------------------------- date.isoformat

Digits == <<"0", "1", "2", "3", "4", "5", "6", "7", "8", "9">>

Digit(n) == Digits[n + 1]

isoformat(d) ==
    << Digit(d[1] \div 1000), Digit((d[1] \div 100) % 10),
       Digit((d[1] \div 10) % 10), Digit(d[1] % 10), "-",
       Digit(d[2] \div 10), Digit(d[2] % 10), "-",
       Digit(d[3] \div 10), Digit(d[3] % 10) >>

\* start.isoformat() if start else None
iso_or_none(d) == IF d # NoDate THEN isoformat(d) ELSE NoDate

\* ------------------------------------------------- pandas

Columns(df) == DOMAIN df

NRows(df) == IF Columns(df) = {} THEN 0 ELSE Len(df[CHOOSE c \in Columns(df) : TRUE])

\* DataFrame.empty
empty(df) == Columns(df) = {} \/ NRows(df) = 0

\* DataFrame.to_dict('records'): one dict per row, in row order.
to_dict_records(df) == [i \in 1..NRows(df) |-> [c \in Columns(df) |-> df[c][i]]]

\* Mutant of replace_inf: only positive infinity is replaced.
replace_pos_inf(df) ==
    [c \in Columns(df) |->
        [i \in 1..Len(df[c]) |-> IF df[c][i] = Inf THEN NaN ELSE df[c][i]]]

\* data.replace([np.inf, -np.inf], np.nan)
replace_inf(df) ==
    [c \in Columns(df) |->
        [i \in 1..Len(df[c]) |-> IF df[c][i] \in {Inf, NegInf} THEN NaN ELSE df[c][i]]]

\* pd.notnull, cell by cell
notnull(cell) == cell \notin {NaN, None}

\* data.where(pd.notnull(data), None)
where_notnull(df) ==
    [c \in Columns(df) |->
        [i \in 1..Len(df[c]) |-> IF notnull(df[c][i]) THEN df[c][i] ELSE None]]

\* ------------------------------------------------- requests (validated by FastAPI)

Corps == {"005930", "samsung"}
Dates == {<<2023, 1, 31>>, <<2022, 12, 5>>}
Years == {2022, 2023}
ReportCodes == {"11011", "11013"}
RcpNos == {"20230101000001", "20221205000002"}

\* Pieces a requested name is built from: a letter, escapes, and broken escapes.
NamePieces ==
    { <<"s">>, <<"%", "2", "0">>, <<"%", "2", "5">>, <<"%">>, <<"2", "0">>, <<"%", "2">> }

Names == Built(NamePieces, MaxPieces) \ {<<>>}

ListRequests ==
    [ op : {"list"}, corp : {None, "005930"}, start : Dates \cup {NoDate},
      end : Dates \cup {NoDate}, kind : {None, "A"}, kind_detail : {None, "A001"},
      final : BOOLEAN ]

NameRequests == [op : {"company_by_name"}, name : Names]

CodeRequests == [op : {"company"}, company_code : {"00126380", "zzz"}]

DocumentRequests == [op : {"document"}, rcp_no : RcpNos]

FinstateRequests ==
    [ op : {"finstate_all"}, corp : Corps, bsns_year : Years,
      reprt_code : ReportCodes, fs_div : {"CFS", "OFS"} ]

DividendRequests == [op : {"dividend"}, corp : Corps, year : Years, quarter : ReportCodes]

Requests ==
    ListRequests \cup NameRequests \cup CodeRequests \cup DocumentRequests
        \cup FinstateRequests \cup DividendRequests

GatewayOps == {"list", "company_by_name", "company", "document", "finstate_all", "dividend"}

\* ------------------------------------------------- what the provider can answer

Lengths == 0..MaxRows

\* dart.list: the filing list; rcept_no and stock_code stand for the nine columns.
ListFrames ==
    UNION { [ rcept_no : [1..n -> {"r1", "r2"}],
              stock_code : [1..n -> {"005930", NaN}] ] : n \in Lengths }

\* dart.finstate_all and dart.report: a numeric column and a text column.
AmountFrames ==
    UNION { [ thstrm_amount : [1..n -> {Inf, NegInf, NaN, None, "100"}],
              account_nm : [1..n -> {"sales", None}] ] : n \in Lengths }

\* dart.company_by_name: a list of profiles.
ProfileLists == UNION { [1..n -> {"profile1", "profile2"}] : n \in Lengths }

\* dart.document: a root element around a body built from these pieces.
DocPieces ==
    { <<"&">>, AmpEntity, <<"&", "l", "t", ";">>, <<"x">>,
      <<"<", "b", "/", ">">>, <<"<">> }

Documents ==
    { <<"<", "a", ">">> \o body \o <<"<", "/", "a", ">">> : body \in Built(DocPieces, MaxPieces) }

Returned(v) == [kind |-> "ok", value |-> v, msg |-> ""]
ReturnedNone == [kind |-> "None", value |-> <<>>, msg |-> ""]
Raised(k) == [kind |-> k, value |-> <<>>, msg |-> "provider message"]

NoOut == [kind |-> "none", value |-> <<>>, msg |-> ""]

Failures == {Raised("ValueError"), Raised("Exception")}

Outcomes(values) == {Returned(v) : v \in values} \cup {ReturnedNone} \cup Failures

\* ------------------------------------------------- responses

NoResp == [status |-> 0, kind |-> "none", media |-> "", content |-> <<>>, headers |-> <<>>]

\* A value returned by a handler: FastAPI serialises it as JSON with status 200.
JSONResponse(kind, content) ==
    [ status |-> 200, kind |-> kind, media |-> "application/json",
      content |-> content, headers |-> <<>> ]

HTTPException(status_code, prefix, text) ==
    [ status |-> status_code, kind |-> "error", media |-> "application/json",
      content |-> <<prefix, text>>, headers |-> <<>> ]

\* ------------------------------------------------- provider call arguments

NoArgs == [method |-> "none"]

\* Dates compare as (year, month, day).
Later(d, e) ==
    \/ d[1] > e[1]
    \/ d[1] = e[1] /\ d[2] > e[2]
    \/ d[1] = e[1] /\ d[2] = e[2] /\ d[3] > e[3]

\* Mutant of list_args: a range given backwards is put in order before the call.
list_args_ordered(r) ==
    LET swap == r.start # NoDate /\ r.end # NoDate /\ Later(r.start, r.end)
    IN  [ method |-> "list", corp |-> r.corp,
          start |-> iso_or_none(IF swap THEN r.end ELSE r.start),
          end |-> iso_or_none(IF swap THEN r.start ELSE r.end),
          kind |-> r.kind, kind_detail |-> r.kind_detail, final |-> r.final ]

\* dart.list(corp=, start=, end=, kind=, kind_detail=, final=)
list_args(r) ==
    [ method |-> "list", corp |-> r.corp, start |-> iso_or_none(r.start),
      end |-> iso_or_none(r.end), kind |-> r.kind, kind_detail |-> r.kind_detail,
      final |-> r.final ]

\* Mutant of company_by_name_args: the name goes out as it came in.
company_by_name_args_raw(r) == [method |-> "company_by_name", name |-> r.name]

\* dart.company_by_name(unquote(name))
company_by_name_args(r) == [method |-> "company_by_name", name |-> unquote(r.name)]

\* dart.company(company_code)
company_args(r) == [method |-> "company", corp |-> r.company_code]

\* dart.document(rcp_no, True)
document_args(r) == [method |-> "document", rcp_no |-> r.rcp_no, cache |-> TRUE]

\* dart.finstate_all(corp=, bsns_year=, reprt_code=, fs_div=)
finstate_all_args(r) ==
    [ method |-> "finstate_all", corp |-> r.corp, bsns_year |-> r.bsns_year,
      reprt_code |-> r.reprt_code, fs_div |-> r.fs_div ]

\* dart.report(corp=, key_word='dividend keyword', bsns_year=year, reprt_code=quarter)
report_args(r) ==
    [ method |-> "report", corp |-> r.corp, key_word |-> "dividend",
      bsns_year |-> r.year, reprt_code |-> r.quarter ]

\* ------------------------------------------------- handlers: outcome to response

\* except ValueError -> 400; except Exception -> 500
two_tier(o, prefix) ==
    IF o.kind = "ValueError"
    THEN HTTPException(400, "", o.msg)
    ELSE HTTPException(500, prefix, o.msg)

\* except Exception -> 400
one_tier(o) == HTTPException(400, "", o.msg)

\* None has no to_dict / replace: an AttributeError, which is not a ValueError.
AttributeError == [kind |-> "Exception", value |-> <<>>, msg |-> "NoneType has no such attribute"]

get_dart_list_response(r, o) ==
    CASE o.kind = "ok" -> JSONResponse("rows", to_dict_records(o.value))
      [] o.kind = "None" -> two_tier(AttributeError, "")
      [] OTHER -> two_tier(o, "")

get_company_by_name_response(r, o) ==
    CASE o.kind = "ok" /\ o.value # <<>> -> JSONResponse("profiles", o.value)
      [] o.kind \in {"ok", "None"} ->
            JSONResponse("message",
                [ message |-> "No companies found with name containing",
                  name |-> unquote(r.name) ])
      [] OTHER -> one_tier(o)

get_company_response(r, o) ==
    CASE o.kind = "ok" -> JSONResponse("profile", o.value)
      [] o.kind = "None" -> JSONResponse("profile", None)
      [] OTHER -> one_tier(o)

\* The text the handler holds after line 86, when the provider returned one.
escaped_text(o) == IF o.kind = "ok" THEN replace_amp(o.value) ELSE <<>>

XMLResponse(r, text) ==
    [ status |-> 200, kind |-> "xml", media |-> "application/xml", content |-> text,
      headers |-> <<"attachment; filename=document_", r.rcp_no, ".xml">> ]

\* The HTTPException raised for a ParseError is raised inside the outer try:
\* it is not a ValueError, so the outer handler turns it into its own 500.
InvalidXML ==
    [ kind |-> "Exception", value |-> <<>>,
      msg |-> "HTTPException: Invalid XML received from DART" ]

\* Mutant of get_document_response: the text is returned without being parsed.
get_document_response_unchecked(r, o) ==
    CASE o.kind = "ok" -> XMLResponse(r, escaped_text(o))
      [] o.kind = "None" -> two_tier(AttributeError, "An error occurred: ")
      [] OTHER -> two_tier(o, "An error occurred: ")

get_document_response(r, o) ==
    CASE o.kind = "ok" ->
            IF fromstring_ok(escaped_text(o))
            THEN XMLResponse(r, escaped_text(o))
            ELSE two_tier(InvalidXML, "An error occurred: ")
      [] o.kind = "None" -> two_tier(AttributeError, "An error occurred: ")
      [] OTHER -> two_tier(o, "An error occurred: ")

\* replace infinities by NaN, then every missing value by None
sanitize(df) == where_notnull(replace_inf(df))

\* Mutant of get_finstate_all_response: only None counts as no data.
get_finstate_all_response_none_only(r, o) ==
    CASE o.kind = "None" -> JSONResponse("message", [message |-> "No data found."])
      [] o.kind = "ok" -> JSONResponse("rows", to_dict_records(sanitize(o.value)))
      [] OTHER -> two_tier(o, "")

get_finstate_all_response(r, o) ==
    CASE o.kind = "None" -> JSONResponse("message", [message |-> "No data found."])
      [] o.kind = "ok" ->
            IF empty(o.value)
            THEN JSONResponse("message", [message |-> "No data found."])
            ELSE JSONResponse("rows", to_dict_records(sanitize(o.value)))
      [] OTHER -> two_tier(o, "")

get_dividend_response(r, o) ==
    CASE o.kind = "None" -> JSONResponse("message", [message |-> "no dividend data found"])
      [] o.kind = "ok" ->
            IF empty(o.value)
            THEN JSONResponse("message", [message |-> "no dividend data found"])
            ELSE JSONResponse("echo",
                    [ corp |-> r.corp, year |-> r.year, quarter |-> r.quarter,
                      data |-> to_dict_records(sanitize(o.value)) ])
      [] OTHER -> two_tier(o, "dividend lookup failed: ")

\* ------------------------------------------------- the process

NoClient == [created |-> FALSE, key |-> None]

NoReq == [op |-> "none"]

Init ==
    /\ API_KEY \in {None, "", "secret"}
    /\ dart = NoClient
    /\ phase = "boot"
    /\ pc = "idle"
    /\ op = "none"
    /\ req = NoReq
    /\ args = NoArgs
    /\ calls = 0
    /\ out = NoOut
    /\ xml_text = <<>>
    /\ resp = NoResp

\* Mutant of module_init: the client is built whatever the key is.
module_init_unchecked ==
    /\ phase = "boot"
    /\ phase' = "serving"
    /\ dart' = [created |-> TRUE, key |-> API_KEY]
    /\ UNCHANGED <<API_KEY, pc, op, req, args, calls, out, xml_text, resp>>

\* Module load, lines 18-22: no key, no client, no server.
module_init ==
    /\ phase = "boot"
    /\ IF API_KEY \in {None, ""}
       THEN /\ phase' = "failed"
            /\ dart' = dart
       ELSE /\ phase' = "serving"
            /\ dart' = [created |-> TRUE, key |-> API_KEY]
    /\ UNCHANGED <<API_KEY, pc, op, req, args, calls, out, xml_text, resp>>

Ready == phase = "serving" /\ pc \in {"idle", "done"}

\* GET /
read_root ==
    /\ Ready
    /\ op' = "root"
    /\ req' = [op |-> "root"]
    /\ args' = NoArgs
    /\ calls' = 0
    /\ out' = NoOut
    /\ xml_text' = <<>>
    /\ resp' = JSONResponse("message", [message |-> "welcome"])
    /\ pc' = "done"
    /\ UNCHANGED <<API_KEY, dart, phase>>

\* The router hands a validated request to its handler.
route ==
    /\ Ready
    /\ \E r \in Requests :
        /\ req' = r
        /\ op' = r.op
    /\ pc' = "handler"
    /\ args' = NoArgs
    /\ calls' = 0
    /\ out' = NoOut
    /\ xml_text' = <<>>
    /\ resp' = NoResp
    /\ UNCHANGED <<API_KEY, dart, phase>>

\* The handler's provider call: the arguments go out, the outcome comes back.
provider_call(o, a, outcomes) ==
    /\ pc = "handler"
    /\ op = o
    /\ dart.created
    /\ args' = a
    /\ calls' = calls + 1
    /\ out' \in outcomes
    /\ pc' = "called"
    /\ UNCHANGED <<API_KEY, dart, phase, op, req, xml_text, resp>>

\* Mutant of respond: a server error sends the handler back to its provider call.
respond_retry(o, response, text) ==
    /\ pc = "called"
    /\ op = o
    /\ IF response.status = 500 /\ calls < 2
       THEN /\ pc' = "handler"
            /\ UNCHANGED <<resp, xml_text>>
       ELSE /\ resp' = response
            /\ xml_text' = text
            /\ pc' = "done"
    /\ UNCHANGED <<API_KEY, dart, phase, op, req, args, calls, out>>

\* The handler's way out: the response, by return or by HTTPException.
respond(o, response, text) ==
    /\ pc = "called"
    /\ op = o
    /\ resp' = response
    /\ xml_text' = text
    /\ pc' = "done"
    /\ UNCHANGED <<API_KEY, dart, phase, op, req, args, calls, out>>

get_dart_list_call == provider_call("list", list_args(req), Outcomes(ListFrames))

get_dart_list == respond("list", get_dart_list_response(req, out), <<>>)

get_company_by_name_call ==
    provider_call("company_by_name", company_by_name_args(req), Outcomes(ProfileLists))

get_company_by_name == respond("company_by_name", get_company_by_name_response(req, out), <<>>)

get_company_call ==
    provider_call("company", company_args(req), Outcomes({"profile1", "profile2"}))

get_company == respond("company", get_company_response(req, out), <<>>)

get_document_call == provider_call("document", document_args(req), Outcomes(Documents))

get_document == respond("document", get_document_response(req, out), escaped_text(out))

get_finstate_all_call ==
    provider_call("finstate_all", finstate_all_args(req), Outcomes(AmountFrames))

get_finstate_all == respond("finstate_all", get_finstate_all_response(req, out), <<>>)

get_dividend_call == provider_call("dividend", report_args(req), Outcomes(AmountFrames))

get_dividend == respond("dividend", get_dividend_response(req, out), <<>>)

Next ==
    \/ module_init
    \/ read_root
    \/ route
    \/ get_dart_list_call
    \/ get_dart_list
    \/ get_company_by_name_call
    \/ get_company_by_name
    \/ get_company_call
    \/ get_company
    \/ get_document_call
    \/ get_document
    \/ get_finstate_all_call
    \/ get_finstate_all
    \/ get_dividend_call
    \/ get_dividend

Spec == Init /\ [][Next]_vars

\* ------------------------------------------------- properties

Done(o) == pc = "done" /\ op = o

Failed == out.kind \in {"ValueError", "Exception"}

\* The rows a response carries.
RespRows ==
    IF resp.kind = "rows" THEN resp.content
    ELSE IF resp.kind = "echo" THEN resp.content.data
    ELSE <<>>

Unserialisable == {Inf, NegInf, NaN}

\* What the sanitization rule makes of one cell.
Cleaned(cell) == IF cell \in Unserialisable \cup {None} THEN None ELSE cell

\* rows are the rows of df, in order, each cell passed through f.
RowsOf(rows, df, f(_)) ==
    /\ Len(rows) = NRows(df)
    /\ \A i \in 1..Len(rows) :
        /\ DOMAIN rows[i] = Columns(df)
        /\ \A c \in Columns(df) : rows[i][c] = f(df[c][i])

Same(cell) == cell

\* s occurs in t.
Occurs(s, t) == \E i \in 1..Len(t) : StartsWith(t, i, s)

\* An ampersand entity escaped once more.
DoubleEscaped == <<"&", "a", "m", "p", ";", "a", "m", "p", ";">>

\* C1: whatever the operation, a ValueError of the provider call is answered
\* with status 400 and any other failure with status 500.
C1_UniformErrorMapping ==
    (pc = "done" /\ op \in GatewayOps) =>
        /\ out.kind = "ValueError" => resp.status = 400
        /\ out.kind = "Exception" => resp.status = 500

\* C2: the ampersand escape of /document is idempotent and introduces no
\* double escape: escaping the escaped text changes nothing, and &amp;amp;
\* occurs in the escaped text only if the provider text had it.
C2_EscapeIdempotent ==
    (Done("document") /\ out.kind = "ok") =>
        /\ replace_amp(xml_text) = xml_text
        /\ Occurs(DoubleEscaped, xml_text) => Occurs(DoubleEscaped, out.value)

\* C3: /document answers with an XML response (status 200, XML media type,
\* filename document_{rcp_no}.xml) only if the escaped provider text parsed;
\* when it does not parse the answer is a 500 error and not the text.
C3_XmlOnlyIfWellFormed ==
    /\ resp.kind = "xml" => Done("document")
    /\ Done("document") =>
        /\ resp.kind = "xml" =>
            /\ out.kind = "ok"
            /\ fromstring_ok(replace_amp(out.value))
            /\ resp.content = replace_amp(out.value)
            /\ resp.status = 200
            /\ resp.media = "application/xml"
            /\ resp.headers = <<"attachment; filename=document_", req.rcp_no, ".xml">>
        /\ (out.kind = "ok" /\ ~fromstring_ok(replace_amp(out.value))) =>
            /\ resp.status = 500
            /\ resp.kind = "error"

C3_Witness ==
    /\ Done("document")
    /\ out.kind = "ok"
    /\ Occurs(<<"&">>, out.value)
    /\ ~fromstring_ok(replace_amp(out.value))
    /\ resp.status = 500

\* C4: in a successful row response of /finstates/all or /dividend no cell is
\* +infinity, -infinity or NaN: such cells and missing cells of the provider
\* table are null, every other cell is the provider's.
C4_NoInfNoNaN ==
    ((Done("finstate_all") \/ Done("dividend")) /\ resp.kind \in {"rows", "echo"}) =>
        /\ resp.status = 200
        /\ out.kind = "ok"
        /\ \A i \in 1..Len(RespRows) : \A c \in DOMAIN RespRows[i] :
              RespRows[i][c] \notin Unserialisable
        /\ RowsOf(RespRows, out.value, Cleaned)

C4_Witness ==
    /\ Done("dividend")
    /\ resp.kind = "echo"
    /\ out.value.thstrm_amount = <<NegInf, Inf>>
    /\ RespRows[1].thstrm_amount = None

\* C5: every row collection that is serialised, the one of /list included,
\* has had its infinities and missing values replaced by null.
C5_EveryTableSanitized ==
    (pc = "done" /\ resp.kind \in {"rows", "echo"}) =>
        \A i \in 1..Len(RespRows) : \A c \in DOMAIN RespRows[i] :
            RespRows[i][c] \notin Unserialisable

\* C6: /finstates/all and /dividend answer None or an empty table with a
\* message object and status 200, never with an empty collection; a table with
\* rows is answered with exactly those rows, sanitized, and /dividend also
\* echoes corp, year and quarter of the request.
C6_EmptyOrRows ==
    (Done("finstate_all") \/ Done("dividend")) =>
        /\ (out.kind = "None" \/ (out.kind = "ok" /\ NRows(out.value) = 0)) =>
            /\ resp.status = 200
            /\ resp.kind = "message"
        /\ resp.kind \in {"rows", "echo"} => RespRows # <<>>
        /\ (out.kind = "ok" /\ NRows(out.value) > 0) =>
            /\ resp.status = 200
            /\ resp.kind = (IF op = "dividend" THEN "echo" ELSE "rows")
            /\ RowsOf(RespRows, out.value, Cleaned)
            /\ op = "dividend" =>
                /\ resp.content.corp = req.corp
                /\ resp.content.year = req.year
                /\ resp.content.quarter = req.quarter

C6_Witness ==
    /\ Done("finstate_all")
    /\ out.kind = "ok"
    /\ NRows(out.value) = 0
    /\ resp.kind = "message"

\* C7: /companies/name queries the provider with the URL-decoded name; an
\* empty result is answered with status 200 and a not-found message naming
\* the decoded name, a non-empty list with that list unchanged.
C7_NameLookup ==
    (op = "company_by_name" /\ pc \in {"called", "done"}) =>
        /\ args.method = "company_by_name"
        /\ args.name = unquote(req.name)
        /\ (pc = "done" /\ out.kind = "ok" /\ out.value = <<>>) =>
            /\ resp.status = 200
            /\ resp.kind = "message"
            /\ resp.content.name = unquote(req.name)
        /\ (pc = "done" /\ out.kind = "ok" /\ out.value # <<>>) =>
            /\ resp.status = 200
            /\ resp.kind = "profiles"
            /\ resp.content = out.value

C7_Witness ==
    /\ Done("company_by_name")
    /\ out.kind = "ok"
    /\ out.value = <<>>
    /\ req.name = <<"s", "%", "2", "0">>
    /\ args.name = <<"s", " ">>
    /\ resp.content.name = <<"s", " ">>

DigitValue(ch) == CHOOSE n \in 0..9 : Digits[n + 1] = ch

IsDigit(ch) == \E n \in 0..9 : Digits[n + 1] = ch

\* text is the YYYY-MM-DD form of the date d, or both are absent.
IsIsoOf(text, d) ==
    IF d = NoDate THEN text = NoDate
    ELSE /\ Len(text) = 10
         /\ text[5] = "-"
         /\ text[8] = "-"
         /\ \A i \in {1, 2, 3, 4, 6, 7, 9, 10} : IsDigit(text[i])
         /\ d[1] = 1000 * DigitValue(text[1]) + 100 * DigitValue(text[2])
                    + 10 * DigitValue(text[3]) + DigitValue(text[4])
         /\ d[2] = 10 * DigitValue(text[6]) + DigitValue(text[7])
         /\ d[3] = 10 * DigitValue(text[9]) + DigitValue(text[10])

KeyAbsent == API_KEY \in {None, ""}

\* C9: without DART_API_KEY the process fails at start, before the provider
\* client exists: it never serves, handles no request, makes no provider call
\* and sends no response.
C9_NoKeyNoStart ==
    KeyAbsent =>
        /\ phase # "serving"
        /\ ~dart.created
        /\ pc = "idle"
        /\ op = "none"
        /\ calls = 0
        /\ resp = NoResp

C9_Witness == KeyAbsent /\ phase = "failed"

\* C10: no retries: a request's handler calls the provider at most once, and
\* exactly once by the time it has answered; a failed provider call is
\* followed directly by the error response, with no further call.
C10_NoRetry ==
    /\ [](/\ calls <= 1
          /\ pc = "handler" => calls = 0
          /\ (pc \in {"called", "done"} /\ op \in GatewayOps) => calls = 1)
    /\ [][(pc = "called" /\ Failed) =>
            (pc' = "done" /\ resp'.kind = "error" /\ calls' = calls)]_vars

C10_Witness == pc = "done" /\ op \in GatewayOps /\ out.kind = "Exception" /\ calls = 1

====
